---- MODULE Spec2Model ----
(***************************************************************************)
(* Model of the hard chain engine of the Purple library                    *)
(* (src/src/chain/src/hard_chain/chain.rs): HardChain::new, write_block    *)
(* and append_block, with the orphan pool, the two tip caches, the         *)
(* pending-heads registry and the key/value store.                         *)
(*                                                                         *)
(* A hash is an integer.  An Option<T> is a set with at most one element   *)
(* ({} is None).  A panic (unwrap on None, unimplemented!, panic!) ends    *)
(* the run: the state at the panic is kept in the variables with           *)
(* result = "Panic" and no further operation is taken.                     *)
(***************************************************************************)
EXTENDS Integers, Sequences, FiniteSets, TLC

VARIABLES
    height,                 \* HardChain.height
    canonical_tip,          \* HardChain.canonical_tip
    canonical_tips_cache,   \* HardChain.canonical_tips_cache
    pending_tips_cache,     \* HardChain.pending_tips_cache
    pending_heads_parents,  \* HardChain.pending_heads_parents
    orphan_pool,            \* HardChain.orphan_pool
    db,                     \* HardChain.db
    easy_hard_tip,          \* marker set on the easy chain by set_hard_canonical_tip
    arg,                    \* the block passed to the last append_block call
    result,                 \* what the last append_block call returned
    chain_ref,              \* HardChainRef: block cache, its mutex, the engine's lock, the threads
    cg,                     \* CausalGraph and the record of the last call on it
    address,                \* ShareholdersAddress under test with its encoding and decoding
    validator               \* the bytecode Validator and the code pushed to it so far

vars == <<height, canonical_tip, canonical_tips_cache, pending_tips_cache,
          pending_heads_parents, orphan_pool, db, easy_hard_tip, arg, result,
          chain_ref, cg, address, validator>>

\* Everything of the engine but the record of the last call.
engine == <<height, canonical_tip, canonical_tips_cache, pending_tips_cache,
            pending_heads_parents, orphan_pool, db, easy_hard_tip>>

\* The components next to the chain engine.
others == <<chain_ref, cg, address, validator>>

(***************************************************************************)
(* Program constants                                                       *)
(***************************************************************************)
MAX_ORPHANS == 10
MIN_HEIGHT == 10
MAX_HEIGHT == 10
BLOCK_CACHE_SIZE == 20

(***************************************************************************)
(* Bounds of the model                                                     *)
(***************************************************************************)
\* Length of the main chain GEN -> A -> B -> ... delivered in SpecWindow.
ChainLen == 12
\* Length of the main chain delivered, in any order and repeatedly, in Spec.
GenLen == 3
\* Number of threads that call HardChainRef::query in SpecRef.
NumThreads == 2
\* Number of bytes pushed to a Validator in SpecValidator.
MaxOps == 5

(***************************************************************************)
(* Blocks                                                                  *)
(***************************************************************************)
HardBlock_new(hash, parent_hash, h) ==
    [hash |-> hash, parent_hash |-> parent_hash, height |-> h]

GenesisHash == 0
genesis == HardBlock_new(GenesisHash, {}, 0)

\* Hash of the block of a given branch of the test tree at a given height.
BranchHash(branch, h) == 100 * branch + h

\* GEN -> A -> B -> C -> D -> E -> F -> G (-> ... up to ChainLen)
MainBlock(h) == HardBlock_new(BranchHash(0, h), {BranchHash(0, h - 1)}, h)
MainChain == {MainBlock(h) : h \in 1..ChainLen}

A == MainBlock(1)
B == MainBlock(2)
C == MainBlock(3)
D == MainBlock(4)
E == MainBlock(5)
F == MainBlock(6)
G == MainBlock(7)
\* A sibling of A: a child of the genesis block at height 1.
A_prime == HardBlock_new(BranchHash(1, 1), {GenesisHash}, 1)
B_prime == HardBlock_new(BranchHash(1, 2), {A.hash}, 2)
C_prime == HardBlock_new(BranchHash(1, 3), {B_prime.hash}, 3)
D_prime == HardBlock_new(BranchHash(1, 4), {C_prime.hash}, 4)
E_prime == HardBlock_new(BranchHash(1, 5), {D_prime.hash}, 5)
C_second == HardBlock_new(BranchHash(2, 3), {B_prime.hash}, 3)
D_second == HardBlock_new(BranchHash(2, 4), {C_second.hash}, 4)
E_second == HardBlock_new(BranchHash(2, 5), {D_second.hash}, 5)
F_second == HardBlock_new(BranchHash(2, 6), {E_second.hash}, 6)
D_tertiary == HardBlock_new(BranchHash(3, 4), {C_prime.hash}, 4)

\* The 16 blocks of append_stress_test.
TestBlocks ==
    {A, B, C, D, E, F, G, B_prime, C_prime, D_prime, E_prime,
     C_second, D_second, E_second, F_second, D_tertiary}

\* Blocks an adversarial network may also deliver.
UnknownHash == BranchHash(8, 0)
\* No parent hash: a genesis-like block (height 0) and one of height 1.
NoParent0 == HardBlock_new(BranchHash(9, 0), {}, 0)
NoParent1 == HardBlock_new(BranchHash(9, 1), {}, 1)
\* Children that do not sit one above their parent (A has height 1, B' height 2).
Skip3 == HardBlock_new(BranchHash(7, 3), {A.hash}, 3)
Skip4 == HardBlock_new(BranchHash(7, 4), {B_prime.hash}, 4)
\* A block of height h whose parent is known nowhere.
Edge(h) == HardBlock_new(BranchHash(9, h), {UnknownHash}, h)
\* A sibling of B: a child of A at height 2.
Fork(i) == HardBlock_new(BranchHash(4, i), {A.hash}, 2)

\* Spec: an adversarial network over a short main chain and the B' branch.
GeneralBlocks ==
    {MainBlock(h) : h \in 1..GenLen}
        \cup {B_prime, C_prime, Skip4, NoParent0, NoParent1}

\* SpecStress: the stress test's tree with its main chain, its B' branch and
\* both branch points of that branch (C'' on B', D''' on C').
StressBlocks ==
    {A, B, C, D, E, F, G, B_prime, C_prime, D_prime, E_prime, C_second, D_tertiary}

\* SpecWindow: the main chain, and blocks at the edges of the admission window.
EdgeHeights == {1, 2, MAX_HEIGHT, MAX_HEIGHT + 1, MAX_HEIGHT + 2}
WindowProbes == {Edge(h) : h \in EdgeHeights} \cup {NoParent0, NoParent1, Skip3}

\* SpecPool: more siblings of B than the orphan pool may hold.
PoolForks == {Fork(i) : i \in 1..(MAX_ORPHANS + 1)}

NoBlock == HardBlock_new(UnknownHash, {}, 0)

(***************************************************************************)
(* Maps (HashMap) as functions with a finite domain                        *)
(***************************************************************************)
EmptyMap == [k \in {} |-> {}]
Put(m, k, v) == [x \in DOMAIN m \cup {k} |-> IF x = k THEN v ELSE m[x]]
Remove(m, k) == [x \in DOMAIN m \ {k} |-> m[x]]

(***************************************************************************)
(* Big-endian 64-bit codec (encode_be_u64!, decode_be_u64!)                *)
(***************************************************************************)
RECURSIVE BytesOf(_, _)
BytesOf(n, k) == IF k = 0 THEN <<>> ELSE Append(BytesOf(n \div 256, k - 1), n % 256)
encode_be_u64(n) == BytesOf(n, 8)

RECURSIVE ValueOf(_, _)
ValueOf(bytes, k) == IF k = 0 THEN 0 ELSE 256 * ValueOf(bytes, k - 1) + bytes[k]
decode_be_u64(bytes) == ValueOf(bytes, Len(bytes))

(***************************************************************************)
(* The chain engine's state as one record                                  *)
(***************************************************************************)
State ==
    [height |-> height,
     canonical_tip |-> canonical_tip,
     canonical_tips_cache |-> canonical_tips_cache,
     pending_tips_cache |-> pending_tips_cache,
     pending_heads_parents |-> pending_heads_parents,
     orphan_pool |-> orphan_pool,
     db |-> db,
     easy_hard_tip |-> easy_hard_tip]

OrphanState_new(block, orphan_type) == [block |-> block, orphan_type |-> orphan_type]

\* What an operation yields: the state it leaves and what it returns.
Outcome(s, res) == [st |-> s, res |-> res]

(***************************************************************************)
(* HardChain::new on an empty store                                        *)
(***************************************************************************)
\* The store: the value under TIP_KEY, the value under CANONICAL_HEIGHT_KEY,
\* the block bodies by hash and the per-block height index.
EmptyDb ==
    [tip |-> {}, canonical_height |-> {}, bodies |-> EmptyMap, block_height |-> EmptyMap]

HardChain_new(db_ref) ==
    LET tip == IF db_ref.tip = {} THEN genesis
               ELSE db_ref.bodies[CHOOSE h \in db_ref.tip : TRUE]
        h0 == IF db_ref.canonical_height = {} THEN 0
              ELSE decode_be_u64(CHOOSE v \in db_ref.canonical_height : TRUE)
        db1 == IF db_ref.canonical_height = {} /\ db_ref.tip = {}
               THEN [db_ref EXCEPT !.canonical_height = {encode_be_u64(0)}]
               ELSE db_ref
    IN [height |-> h0,
        canonical_tip |-> tip,
        canonical_tips_cache |-> {},
        pending_tips_cache |-> {},
        pending_heads_parents |-> EmptyMap,
        orphan_pool |-> EmptyMap,
        db |-> db1,
        easy_hard_tip |-> {}]

(***************************************************************************)
(* HardChain::write_block                                                  *)
(***************************************************************************)
\* write_block without the "height += 1" of line 244.
write_block_no_increment(s, block, stamp_ok) ==
    LET db1 == [s.db EXCEPT !.bodies = Put(@, block.hash, block)]
        h == decode_be_u64(CHOOSE v \in db1.canonical_height : TRUE)
        db2 == [db1 EXCEPT !.canonical_height = {encode_be_u64(h)},
                           !.block_height = Put(@, block.hash, encode_be_u64(h))]
        s2 == [s EXCEPT !.canonical_tip = block, !.height = h, !.db = db2]
    IN IF stamp_ok
       THEN Outcome([s2 EXCEPT !.easy_hard_tip = {block.hash}], "Ok")
       ELSE Outcome(s2, "Panic")

\* write_block that stamps the easy chain with the hash of the block's parent.
write_block_stamp_parent(s, block, stamp_ok) ==
    LET h == decode_be_u64(CHOOSE v \in s.db.canonical_height : TRUE) + 1
        db2 == [s.db EXCEPT !.bodies = Put(@, block.hash, block),
                            !.canonical_height = {encode_be_u64(h)},
                            !.block_height = Put(@, block.hash, encode_be_u64(h))]
        s2 == [s EXCEPT !.canonical_tip = block, !.height = h, !.db = db2]
    IN IF stamp_ok
       THEN Outcome([s2 EXCEPT !.easy_hard_tip = block.parent_hash], "Ok")
       ELSE Outcome(s2, "Panic")

\* stamp_ok: whether set_hard_canonical_tip returns Ok on the easy chain.
write_block(s, block, stamp_ok) ==
    LET db1 == [s.db EXCEPT !.bodies = Put(@, block.hash, block)]
        s1 == [s EXCEPT !.db = db1, !.canonical_tip = block]
    IN IF db1.canonical_height = {}
       THEN Outcome(s1, "Panic")
       ELSE
         LET h == decode_be_u64(CHOOSE v \in db1.canonical_height : TRUE) + 1
             encoded_height == encode_be_u64(h)
             db2 == [db1 EXCEPT !.canonical_height = {encoded_height},
                                !.block_height = Put(@, block.hash, encoded_height)]
             s2 == [s1 EXCEPT !.height = h, !.db = db2]
         IN IF stamp_ok
            THEN Outcome([s2 EXCEPT !.easy_hard_tip = {block.hash}], "Ok")
            ELSE Outcome(s2, "Panic")

\* write_block in a process that dies after the first `writes` of its three
\* store writes (block body, canonical height, per-block height index): what
\* the store holds then.
write_block_store(db_ref, block, writes) ==
    LET h == decode_be_u64(CHOOSE v \in db_ref.canonical_height : TRUE) + 1
        encoded_height == encode_be_u64(h)
        db1 == [db_ref EXCEPT !.bodies = Put(@, block.hash, block)]
        db2 == [db1 EXCEPT !.canonical_height = {encoded_height}]
        db3 == [db2 EXCEPT !.block_height = Put(@, block.hash, encoded_height)]
    IN IF writes = 0 THEN db_ref
       ELSE IF writes = 1 THEN db1
       ELSE IF writes = 2 THEN db2
       ELSE db3

(***************************************************************************)
(* HardChain::append_block, one operator per placement                     *)
(***************************************************************************)
\* min_height with ">=" for the ">" of line 295.
min_height_ge(h) == IF h >= MIN_HEIGHT THEN h - MIN_HEIGHT ELSE 1

min_height(h) == IF h > MIN_HEIGHT THEN h - MIN_HEIGHT ELSE 1

\* The admission window: the block is rejected with BadHeight.
OutsideWindow(h, block_height) ==
    block_height > h + MAX_HEIGHT \/ block_height < min_height(h)

\* AppendToTip without the height check of lines 313-315.
AppendToTip_no_height_check(s, block, stamp_ok) ==
    IF block.hash \in DOMAIN s.pending_heads_parents
    THEN Outcome(s, "Panic")
    ELSE write_block(s, block, stamp_ok)

\* The parent is the canonical tip.
AppendToTip(s, block, stamp_ok) ==
    IF block.height # s.height + 1
    THEN Outcome(s, "BadHeight")
    ELSE IF block.hash \in DOMAIN s.pending_heads_parents
         THEN Outcome(s, "Panic")
         ELSE write_block(s, block, stamp_ok)

\* The parent is in canonical_tips_cache.
AppendToCanonicalTips(s, block, parent_hash) ==
    IF parent_hash \notin DOMAIN s.orphan_pool
    THEN Outcome(s, "Panic")
    ELSE IF block.height # s.orphan_pool[parent_hash].block.height + 1
         THEN Outcome(s, "BadHeight")
         ELSE Outcome(s, "Panic")

\* AppendToPendingTips with the parent relabelled before the height check.
AppendToPendingTips_relabel_first(s, block, parent_hash) ==
    LET parent_type ==
            IF s.orphan_pool[parent_hash].orphan_type = "PendingTipHead"
            THEN "PendingHead" ELSE "PendingNonTip"
        s1 == [s EXCEPT !.orphan_pool[parent_hash].orphan_type = parent_type]
    IN IF block.height # s.orphan_pool[parent_hash].block.height + 1
       THEN Outcome(s1, "BadHeight")
       ELSE Outcome([s1 EXCEPT
                        !.pending_tips_cache = (@ \cup {block.hash}) \ {parent_hash},
                        !.orphan_pool =
                            Put(@, block.hash, OrphanState_new(block, "PendingTip"))],
                    "Ok")

\* The parent is in pending_tips_cache.
AppendToPendingTips(s, block, parent_hash) ==
    IF parent_hash \notin DOMAIN s.orphan_pool
    THEN Outcome(s, "Panic")
    ELSE IF block.height # s.orphan_pool[parent_hash].block.height + 1
         THEN Outcome(s, "BadHeight")
         ELSE
           LET parent_type ==
                   IF s.orphan_pool[parent_hash].orphan_type = "PendingTipHead"
                   THEN "PendingHead" ELSE "PendingNonTip"
               pool1 == [s.orphan_pool EXCEPT ![parent_hash].orphan_type = parent_type]
           IN IF block.hash \in DOMAIN s.pending_heads_parents
              THEN Outcome([s EXCEPT !.orphan_pool =
                               Put(pool1, block.hash,
                                   OrphanState_new(block, "PendingNonTip"))],
                           "Panic")
              ELSE Outcome([s EXCEPT
                               !.pending_tips_cache = (@ \cup {block.hash}) \ {parent_hash},
                               !.orphan_pool =
                                   Put(pool1, block.hash,
                                       OrphanState_new(block, "PendingTip"))],
                           "Ok")

\* The block is the missing parent of a registered pending head.
AppendAsHeadParent(s, block, parent_hash) ==
    LET entry == s.pending_heads_parents[block.hash]
        children == DOMAIN entry
        pool == s.orphan_pool
        found_match == parent_hash \in s.pending_tips_cache
    IN IF children = {}
       THEN Outcome(s, "Ok")
       ELSE IF (children \cup s.pending_tips_cache) \ DOMAIN pool # {}
       THEN Outcome(s, "Panic")
       ELSE
         LET pool1 == [h \in DOMAIN pool |->
                         IF h \in children
                         THEN [pool[h] EXCEPT !.orphan_type =
                                 IF @ = "PendingTipHead" THEN "PendingTip"
                                 ELSE "PendingNonTip"]
                         ELSE pool[h]]
             entry1 == [c \in children |->
                          IF pool[c].orphan_type = "PendingTipHead"
                          THEN entry[c] ELSE entry[c] \ {c}]
         IN IF found_match
            THEN Outcome([s EXCEPT !.orphan_pool =
                             [pool1 EXCEPT ![parent_hash].orphan_type = "PendingNonTip"]],
                         "Panic")
            ELSE Outcome([s EXCEPT
                             !.orphan_pool =
                                 Put(pool1, block.hash,
                                     OrphanState_new(block, "PendingHead")),
                             !.pending_heads_parents =
                                 Put(Remove(@, block.hash), parent_hash, entry1)],
                         "Ok")

\* AppendFork that also makes the block the canonical tip.
AppendFork_moves_tip(s, block) ==
    Outcome([s EXCEPT
                !.orphan_pool = Put(@, block.hash, OrphanState_new(block, "CanonicalTip")),
                !.canonical_tips_cache = @ \cup {block.hash},
                !.canonical_tip = block,
                !.height = block.height],
            "Ok")

\* The parent is in the store and is not the canonical tip.
AppendFork(s, block) ==
    Outcome([s EXCEPT
                !.orphan_pool = Put(@, block.hash, OrphanState_new(block, "CanonicalTip")),
                !.canonical_tips_cache = @ \cup {block.hash}],
            "Ok")

\* AppendToOrphan without the insertions into the tip caches of lines 522 and
\* 529.
AppendToOrphan_no_tip_cache(s, block, parent_hash) ==
    LET parent_type == s.orphan_pool[parent_hash].orphan_type
    IN IF parent_type \in {"PendingTip", "CanonicalTip", "PendingTipHead"}
       THEN Outcome(s, "Panic")
       ELSE IF parent_type \in {"PendingNonTip", "PendingHead"}
       THEN Outcome([s EXCEPT
                        !.orphan_pool =
                            Put(@, block.hash, OrphanState_new(block, "PendingTip"))],
                    "Ok")
       ELSE Outcome([s EXCEPT
                        !.orphan_pool =
                            Put(@, block.hash, OrphanState_new(block, "CanonicalTip"))],
                    "Ok")

\* The parent is an orphan that is in neither tip cache.
AppendToOrphan(s, block, parent_hash) ==
    LET parent_type == s.orphan_pool[parent_hash].orphan_type
    IN IF parent_type \in {"PendingTip", "CanonicalTip", "PendingTipHead"}
       THEN Outcome(s, "Panic")
       ELSE IF parent_type \in {"PendingNonTip", "PendingHead"}
       THEN Outcome([s EXCEPT
                        !.orphan_pool =
                            Put(@, block.hash, OrphanState_new(block, "PendingTip")),
                        !.pending_tips_cache = @ \cup {block.hash}],
                    "Ok")
       ELSE Outcome([s EXCEPT
                        !.orphan_pool =
                            Put(@, block.hash, OrphanState_new(block, "CanonicalTip")),
                        !.canonical_tips_cache = @ \cup {block.hash}],
                    "Ok")

\* Branches::new() followed by insert(block_hash, &[], None): one head, no tips.
Branches_of(block_hash) == [c \in {block_hash} |-> {}]

\* AppendPending without the insertion into pending_tips_cache of line 542.
AppendPending_no_tip_cache(s, block, parent_hash) ==
    Outcome([s EXCEPT
                !.orphan_pool = Put(@, block.hash, OrphanState_new(block, "PendingTipHead")),
                !.pending_heads_parents = Put(@, parent_hash, Branches_of(block.hash))],
            "Ok")

\* The parent is known nowhere: a new pending chain.
AppendPending(s, block, parent_hash) ==
    Outcome([s EXCEPT
                !.orphan_pool = Put(@, block.hash, OrphanState_new(block, "PendingTipHead")),
                !.pending_tips_cache = @ \cup {block.hash},
                !.pending_heads_parents = Put(@, parent_hash, Branches_of(block.hash))],
            "Ok")

append_block(s, block, stamp_ok) ==
    IF OutsideWindow(s.height, block.height)
    THEN Outcome(s, "BadHeight")
    ELSE IF block.parent_hash = {}
    THEN Outcome(s, "NoParentHash")
    ELSE
      LET parent_hash == CHOOSE h \in block.parent_hash : TRUE
      IN IF parent_hash = s.canonical_tip.hash
         THEN AppendToTip(s, block, stamp_ok)
         ELSE IF parent_hash \in s.canonical_tips_cache
         THEN AppendToCanonicalTips(s, block, parent_hash)
         ELSE IF parent_hash \in s.pending_tips_cache
         THEN AppendToPendingTips(s, block, parent_hash)
         ELSE IF block.hash \in DOMAIN s.pending_heads_parents
         THEN AppendAsHeadParent(s, block, parent_hash)
         ELSE IF parent_hash \in DOMAIN s.db.bodies
         THEN AppendFork(s, block)
         ELSE IF parent_hash \in DOMAIN s.orphan_pool
         THEN AppendToOrphan(s, block, parent_hash)
         ELSE AppendPending(s, block, parent_hash)

(***************************************************************************)
(* HardChain::query: the block stored under a hash, if any                 *)
(***************************************************************************)
\* query that also serves the blocks of the orphan pool.
query_or_orphan(s, hash) ==
    IF hash \in DOMAIN s.db.bodies THEN {s.db.bodies[hash]}
    ELSE IF hash \in DOMAIN s.orphan_pool THEN {s.orphan_pool[hash].block}
    ELSE {}

query(s, hash) == IF hash \in DOMAIN s.db.bodies THEN {s.db.bodies[hash]} ELSE {}

\* HardChain::query_by_height is unimplemented!(): every call panics.
query_by_height(s, h) == [res |-> "Panic", block |-> {}]

(***************************************************************************)
(* The state machine                                                       *)
(***************************************************************************)
\* The components next to the chain engine before any of them is used.
NoRef == [used |-> FALSE]
NoGraph == [used |-> FALSE]
NoAddress == [used |-> FALSE]
NoValidator == [used |-> FALSE]

InstallEngine(s) ==
    /\ height' = s.height
    /\ canonical_tip' = s.canonical_tip
    /\ canonical_tips_cache' = s.canonical_tips_cache
    /\ pending_tips_cache' = s.pending_tips_cache
    /\ pending_heads_parents' = s.pending_heads_parents
    /\ orphan_pool' = s.orphan_pool
    /\ db' = s.db
    /\ easy_hard_tip' = s.easy_hard_tip

Install(s) == InstallEngine(s) /\ UNCHANGED others

Init ==
    LET s == HardChain_new(EmptyDb)
    IN /\ height = s.height
       /\ canonical_tip = s.canonical_tip
       /\ canonical_tips_cache = s.canonical_tips_cache
       /\ pending_tips_cache = s.pending_tips_cache
       /\ pending_heads_parents = s.pending_heads_parents
       /\ orphan_pool = s.orphan_pool
       /\ db = s.db
       /\ easy_hard_tip = s.easy_hard_tip
       /\ arg = NoBlock
       /\ result = "None"
       /\ chain_ref = NoRef
       /\ cg = NoGraph
       /\ address = NoAddress
       /\ validator = NoValidator

\* One call of append_block; a panic ends the run.
AppendBlock(block, stamp_ok) ==
    /\ result # "Panic"
    /\ LET out == append_block(State, block, stamp_ok)
       IN /\ Install(out.st)
          /\ arg' = block
          /\ result' = out.res

\* Hashes of the blocks the engine holds, in the store or in the orphan pool.
Held == DOMAIN db.bodies \cup DOMAIN orphan_pool

\* Any block of GeneralBlocks, in any order, any number of times; the stamp on
\* the easy chain may fail.
Next == \E block \in GeneralBlocks, stamp_ok \in BOOLEAN : AppendBlock(block, stamp_ok)

Spec == Init /\ [][Next]_vars

\* append_stress_test: a permutation of the blocks, each appended once.
StressNext ==
    \E block \in StressBlocks :
        /\ block.hash \notin Held
        /\ AppendBlock(block, TRUE)

SpecStress == Init /\ [][StressNext]_vars

\* The main chain arrives in order, one block above the tip at a time; the
\* probes arrive at any time.
WindowNext ==
    \E block \in MainChain \cup WindowProbes :
        /\ block \in MainChain => block.height = height + 1
        /\ AppendBlock(block, TRUE)

SpecWindow == Init /\ [][WindowNext]_vars

\* A and B arrive in order; the siblings of B arrive once B is the tip.
PoolNext ==
    \E block \in {A, B} \cup PoolForks :
        /\ block \in {A, B} => block.height = height + 1
        /\ block \in PoolForks => canonical_tip = B
        /\ AppendBlock(block, TRUE)

SpecPool == Init /\ [][PoolNext]_vars

\* SpecFork: the main chain up to C and children of its blocks below the tip,
\* the genesis block included, in any order and any number of times.
ForkNext ==
    \E block \in {A, B, C, A_prime, B_prime, Fork(1), Skip3} : AppendBlock(block, TRUE)

SpecFork == Init /\ [][ForkNext]_vars

\* The blocks delivered in SpecCrash.
CrashBlocks == {MainBlock(h) : h \in 1..GenLen} \cup {B_prime}

\* The process dies inside write_block, between two of its store writes: the
\* store keeps the writes done so far, the fields in memory are of no account
\* from then on.
Crash(block, writes) ==
    /\ result \notin {"Panic", "Crashed"}
    /\ ~OutsideWindow(height, block.height)
    /\ block.parent_hash = {canonical_tip.hash}
    /\ block.height = height + 1
    /\ block.hash \notin DOMAIN pending_heads_parents
    /\ db' = write_block_store(db, block, writes)
    /\ arg' = block
    /\ result' = "Crashed"
    /\ UNCHANGED <<height, canonical_tip, canonical_tips_cache, pending_tips_cache,
                   pending_heads_parents, orphan_pool, easy_hard_tip>>
    /\ UNCHANGED others

\* A new process builds the engine on the store as it is; the easy chain keeps
\* its marker.
Recover ==
    /\ Install([HardChain_new(db) EXCEPT !.easy_hard_tip = easy_hard_tip])
    /\ arg' = NoBlock
    /\ result' = "None"

CrashNext ==
    \/ \E block \in CrashBlocks, stamp_ok \in BOOLEAN :
          result # "Crashed" /\ AppendBlock(block, stamp_ok)
    \/ \E block \in CrashBlocks, writes \in 1..2 : Crash(block, writes)
    \/ Recover

SpecCrash == Init /\ [][CrashNext]_vars

(***************************************************************************)
(* HardChainRef: the engine behind a reader/writer lock, and a block cache *)
(* behind a mutex                                                          *)
(***************************************************************************)
Threads == 1..NumThreads

\* The blocks appended and the hashes queried in SpecRef.
RefBlocks == {A, B_prime}
QueryHashes == {A.hash, B_prime.hash}

\* LruCache: a sequence of entries, the most recently used last.
LruCache_new == <<>>

LruCache_find(cache, hash) == {i \in 1..Len(cache) : cache[i].hash = hash}

\* Every entry but the one under a hash, in order.
LruCache_without(cache, hash) == SelectSeq(cache, LAMBDA e : e.hash # hash)

\* get: the entry's block, the entry becoming the most recently used.
LruCache_get(cache, hash) ==
    LET found == LruCache_find(cache, hash)
    IN IF found = {}
       THEN [cache |-> cache, value |-> {}]
       ELSE LET e == cache[CHOOSE i \in found : TRUE]
            IN [cache |-> Append(LruCache_without(cache, hash), e),
                value |-> {e.block}]

\* put: insert as the most recently used, the least recently used entry being
\* dropped when the cache is full.
LruCache_put(cache, hash, block) ==
    LET rest == LruCache_without(cache, hash)
        room == IF Len(rest) >= BLOCK_CACHE_SIZE THEN Tail(rest) ELSE rest
    IN Append(room, [hash |-> hash, block |-> block])

IdleThread == [pc |-> "idle", hash |-> GenesisHash, chain_result |-> {}]

HardChainRef_new ==
    [used |-> TRUE,
     block_cache |-> LruCache_new,
     mutex |-> {},          \* the thread inside block_cache.lock()
     readers |-> {},        \* the threads inside chain.read()
     writer |-> FALSE,      \* a thread is inside chain.write()
     th |-> [t \in Threads |-> IdleThread],
     returned |-> {}]       \* the last return of query

\* query returns: the thread is idle again and the return is recorded.
Return(r, t, value, via) ==
    [r EXCEPT !.th[t] = IdleThread,
              !.returned = {[thread |-> t, hash |-> r.th[t].hash,
                             value |-> value, via |-> via]}]

\* Line 90: block_cache.lock().
QueryLockCache(t, hash) ==
    /\ chain_ref.th[t].pc = "idle"
    /\ chain_ref.mutex = {}
    /\ chain_ref' = [chain_ref EXCEPT !.mutex = {t},
                                       !.th[t].pc = "cache_locked",
                                       !.th[t].hash = hash]
    /\ UNCHANGED <<engine, arg, result, cg, address, validator>>

\* QueryCacheGet that keeps the mutex when the cache misses.
CacheGetStep_keep_mutex(r, t) ==
    LET got == LruCache_get(r.block_cache, r.th[t].hash)
        r1 == [r EXCEPT !.block_cache = got.cache]
    IN IF got.value # {}
       THEN Return([r1 EXCEPT !.mutex = {}], t, got.value, "cache")
       ELSE [r1 EXCEPT !.th[t].pc = "miss"]

\* Lines 92-100: cache.get, the guard dropped at the end of the block, and the
\* return on a hit.
CacheGetStep(r, t) ==
    LET got == LruCache_get(r.block_cache, r.th[t].hash)
        r1 == [r EXCEPT !.block_cache = got.cache, !.mutex = {}]
    IN IF got.value # {}
       THEN Return(r1, t, got.value, "cache")
       ELSE [r1 EXCEPT !.th[t].pc = "miss"]

QueryCacheGet(t) ==
    /\ chain_ref.th[t].pc = "cache_locked"
    /\ chain_ref' = CacheGetStep(chain_ref, t)
    /\ UNCHANGED <<engine, arg, result, cg, address, validator>>

\* Line 103: chain.read().
QueryReadLock(t) ==
    /\ chain_ref.th[t].pc = "miss"
    /\ ~chain_ref.writer
    /\ chain_ref' = [chain_ref EXCEPT !.readers = @ \cup {t},
                                       !.th[t].pc = "chain_read"]
    /\ UNCHANGED <<engine, arg, result, cg, address, validator>>

\* Lines 105-123: chain.query(hash), the read guard dropped, and the return of
\* None when the store has no such block.
QueryChain(t) ==
    /\ chain_ref.th[t].pc = "chain_read"
    /\ LET found == query(State, chain_ref.th[t].hash)
           r1 == [chain_ref EXCEPT !.readers = @ \ {t}]
       IN chain_ref' = IF found = {}
                       THEN Return(r1, t, {}, "store")
                       ELSE [r1 EXCEPT !.th[t].pc = "found",
                                       !.th[t].chain_result = found]
    /\ UNCHANGED <<engine, arg, result, cg, address, validator>>

\* Line 113: block_cache.lock().
QueryLockCacheAgain(t) ==
    /\ chain_ref.th[t].pc = "found"
    /\ chain_ref.mutex = {}
    /\ chain_ref' = [chain_ref EXCEPT !.mutex = {t}, !.th[t].pc = "fill_locked"]
    /\ UNCHANGED <<engine, arg, result, cg, address, validator>>

\* Lines 115-120: the back-fill of the cache and the return of the block.
QueryCacheFill(t) ==
    /\ chain_ref.th[t].pc = "fill_locked"
    /\ LET me == chain_ref.th[t]
           got == LruCache_get(chain_ref.block_cache, me.hash)
           filled == IF got.value = {}
                     THEN LruCache_put(got.cache, me.hash,
                                       CHOOSE b \in me.chain_result : TRUE)
                     ELSE got.cache
       IN chain_ref' = Return([chain_ref EXCEPT !.block_cache = filled, !.mutex = {}],
                              t, me.chain_result, "store")
    /\ UNCHANGED <<engine, arg, result, cg, address, validator>>

\* chain.write() by the thread that appends.
WriterLock ==
    /\ result # "Panic"
    /\ ~chain_ref.writer
    /\ chain_ref.readers = {}
    /\ chain_ref' = [chain_ref EXCEPT !.writer = TRUE]
    /\ UNCHANGED <<engine, arg, result, cg, address, validator>>

\* append_block under the write lock, the lock dropped afterwards.
WriterAppend(block) ==
    /\ chain_ref.writer
    /\ LET out == append_block(State, block, TRUE)
       IN /\ InstallEngine(out.st)
          /\ arg' = block
          /\ result' = out.res
    /\ chain_ref' = [chain_ref EXCEPT !.writer = FALSE]
    /\ UNCHANGED <<cg, address, validator>>

RefInit ==
    LET s == HardChain_new(EmptyDb)
    IN /\ height = s.height
       /\ canonical_tip = s.canonical_tip
       /\ canonical_tips_cache = s.canonical_tips_cache
       /\ pending_tips_cache = s.pending_tips_cache
       /\ pending_heads_parents = s.pending_heads_parents
       /\ orphan_pool = s.orphan_pool
       /\ db = s.db
       /\ easy_hard_tip = s.easy_hard_tip
       /\ arg = NoBlock
       /\ result = "None"
       /\ chain_ref = HardChainRef_new
       /\ cg = NoGraph
       /\ address = NoAddress
       /\ validator = NoValidator

RefNext ==
    \/ \E t \in Threads, hash \in QueryHashes : QueryLockCache(t, hash)
    \/ \E t \in Threads : QueryCacheGet(t)
    \/ \E t \in Threads : QueryReadLock(t)
    \/ \E t \in Threads : QueryChain(t)
    \/ \E t \in Threads : QueryLockCacheAgain(t)
    \/ \E t \in Threads : QueryCacheFill(t)
    \/ WriterLock
    \/ \E block \in RefBlocks : WriterAppend(block)

SpecRef == RefInit /\ [][RefNext]_vars

(***************************************************************************)
(* CausalGraph (src/src/consensus/src/causal_graph.rs)                     *)
(*                                                                         *)
(* A vertex is the event it holds.  HashMap and HashSet iterate in an      *)
(* order the program does not fix: push and compute_highest_following      *)
(* yield the set of the outcomes that the possible orders produce.         *)
(***************************************************************************)
Event_Dummy(node_id, hash, parent_hash) ==
    [node_id |-> node_id, hash |-> hash, parent_hash |-> parent_hash]

\* The events of the three tests, by the names the tests give them.
\* tests::is_direct_follower: A <- B <- C <- D, authors n1, n2, n1, n2.
DirectFollowerEvents ==
    [A |-> Event_Dummy("n1", 10, {}), B |-> Event_Dummy("n2", 11, {10}),
     C |-> Event_Dummy("n1", 12, {11}), D |-> Event_Dummy("n2", 13, {12})]

\* tests::highest_following_with_byzantine_events: C1, C2, C3 by n1 all on B.
ByzantineEvents ==
    [A |-> Event_Dummy("n1", 20, {}), B |-> Event_Dummy("n2", 21, {20}),
     C1 |-> Event_Dummy("n1", 22, {21}), C2 |-> Event_Dummy("n1", 23, {21}),
     C3 |-> Event_Dummy("n1", 24, {21}), D |-> Event_Dummy("n2", 25, {22})]

\* tests::is_direct_follower_mul_paths: one author, two branch points.
MulPathsEvents ==
    [A |-> Event_Dummy("n", 30, {}), B |-> Event_Dummy("n", 31, {30}),
     C |-> Event_Dummy("n", 32, {31}), D |-> Event_Dummy("n", 33, {31}),
     E |-> Event_Dummy("n", 34, {33}), F |-> Event_Dummy("n", 35, {33}),
     G |-> Event_Dummy("n", 36, {35})]

\* Per test: the graph's own node, the root and the events pushed.
GraphTests ==
    [direct_follower |->
        [node_id |-> "n1", root |-> DirectFollowerEvents.A,
         events |-> {DirectFollowerEvents.B, DirectFollowerEvents.C,
                     DirectFollowerEvents.D}],
     byzantine |->
        [node_id |-> "n1", root |-> ByzantineEvents.A,
         events |-> {ByzantineEvents.B, ByzantineEvents.C1, ByzantineEvents.C2,
                     ByzantineEvents.C3, ByzantineEvents.D}],
     mul_paths |->
        [node_id |-> "n", root |-> MulPathsEvents.A,
         events |-> {MulPathsEvents.B, MulPathsEvents.C, MulPathsEvents.D,
                     MulPathsEvents.E, MulPathsEvents.F, MulPathsEvents.G}]]

NodeIds == {"n1", "n2", "n"}

CausalGraph_new(node_id, root_event) ==
    [used |-> TRUE,
     graph |-> [vertices |-> {root_event}, edges |-> {}],
     node_id |-> node_id,
     pending |-> {},
     ends |-> [v \in {root_event} |-> 0],
     lookup_table |-> [h \in {root_event.hash} |-> root_event],
     highest |-> [events |-> <<root_event>>, following |-> 0],
     highest_following |-> [events |-> <<>>, following |-> 0],
     status |-> "Ok"]

contains(g, event) == event.hash \in DOMAIN g.lookup_table

\* The orders in which a set may be iterated.
RECURSIVE Orders(_)
Orders(S) ==
    IF S = {} THEN {<<>>}
    ELSE UNION {{<<x>> \o rest : rest \in Orders(S \ {x})} : x \in S}

\* Lines 141-156: the cache of the highest events after the events of `order`
\* were attached with new_following; events of the nodes in `skip` are passed over.
RECURSIVE CacheHighest(_, _, _, _)
CacheHighest(cache, order, new_following, skip) ==
    IF order = <<>> THEN cache
    ELSE LET current == Head(order)
             next == IF current.node_id \in skip THEN cache
                     ELSE IF new_following > cache.following
                     THEN [events |-> <<current>>, following |-> new_following]
                     ELSE IF new_following = cache.following
                     THEN [events |-> Append(cache.events, current),
                           following |-> new_following]
                     ELSE cache
         IN CacheHighest(next, Tail(order), new_following, skip)

\* in_neighbors answering that a vertex has none: push never walks back.
in_neighbors_none(g, v) == {}

in_neighbors(g, v) == {n \in g.graph.vertices : <<n, v>> \in g.graph.edges}

out_neighbors(g, v) == {n \in g.graph.vertices : <<v, n>> \in g.graph.edges}

\* Lines 121-183: one iteration of the attach loop of push, from a state g and
\* a deque of (vertex, following) entries that is popped at the back and
\* pushed at the front: the states and deques it may leave.
LoopBody(g, ends) ==
    LET current_end == ends[Len(ends)]
        rest == SubSeq(ends, 1, Len(ends) - 1)
        matching == {e \in g.pending : e.parent_hash = {current_end.v.hash}}
    IN IF matching = {}
       THEN LET current_end_in_n == in_neighbors(g, current_end.v)
            IN IF Cardinality(current_end_in_n) > 1
               THEN {[g |-> [g EXCEPT !.status = "Panic"], ends |-> <<>>]}
               ELSE {[g |-> g,
                      ends |-> [i \in 1..Len(front) |->
                                  [v |-> front[i],
                                   following |-> current_end.following - 1]]
                               \o rest]
                        : front \in Orders(current_end_in_n)}
       ELSE {LET new_following == current_end.following + 1
                 kept == DOMAIN g.ends \ {current_end.v}
                 g1 == [g EXCEPT
                          !.ends = [v \in kept \cup matching |->
                                      IF v \in matching THEN new_following
                                      ELSE g.ends[v]],
                          !.highest =
                              CacheHighest(@, order, new_following, {}),
                          !.highest_following =
                              CacheHighest(@, order, new_following, {g.node_id}),
                          !.pending = @ \ matching,
                          !.graph.edges =
                              @ \cup {<<current_end.v, e>> : e \in matching}]
                 front == [i \in 1..Len(order) |->
                             [v |-> order[Len(order) + 1 - i],
                              following |-> new_following]]
             IN [g |-> g1, ends |-> front \o rest]
                : order \in Orders(matching)}

\* Lines 116-187: the attach loop of push, run until it returns.
RECURSIVE PushLoop(_, _)
PushLoop(g, ends) ==
    IF g.pending = {} \/ ends = <<>> THEN {g}
    ELSE UNION {PushLoop(x.g, x.ends) : x \in LoopBody(g, ends)}

\* push linking the event to its parent at once when the parent is in the
\* graph, while still marking it pending.
push_linking_pending(g, event) ==
    IF event.parent_hash = {} \/ contains(g, event)
    THEN {[g EXCEPT !.status = "Panic"]}
    ELSE
      LET g1 == [g EXCEPT
                   !.graph.vertices = @ \cup {event},
                   !.graph.edges =
                       @ \cup {<<p, event>> : p \in {p \in g.graph.vertices :
                                                      event.parent_hash = {p.hash}}},
                   !.lookup_table = Put(@, event.hash, event),
                   !.pending = @ \cup {event}]
      IN UNION {PushLoop(g1, [i \in 1..Len(order) |->
                                 [v |-> order[i], following |-> g.ends[order[i]]]])
                   : order \in Orders(DOMAIN g.ends)}

\* push: the states it may end in.
push(g, event) ==
    IF event.parent_hash = {} \/ contains(g, event)
    THEN {[g EXCEPT !.status = "Panic"]}
    ELSE
      LET g1 == [g EXCEPT
                   !.graph.vertices = @ \cup {event},
                   !.lookup_table = Put(@, event.hash, event),
                   !.pending = @ \cup {event}]
      IN UNION {PushLoop(g1, [i \in 1..Len(order) |->
                                 [v |-> order[i], following |-> g.ends[order[i]]]])
                   : order \in Orders(DOMAIN g.ends)}

\* highest answering from the cache of the other nodes' events when it has one.
highest_from_following(g) ==
    IF g.highest_following.events = <<>> THEN g.highest.events[1]
    ELSE g.highest_following.events[1]

highest(g) == g.highest.events[1]

\* highest_exclusive: Some(event) as {event}, None as {}.
highest_exclusive(g, node_id) ==
    LET top == highest(g)
    IN IF top.node_id # node_id THEN [res |-> "Ok", value |-> {top}]
       ELSE IF top.parent_hash = {} THEN [res |-> "Ok", value |-> {}]
       ELSE LET event == g.lookup_table[CHOOSE h \in top.parent_hash : TRUE]
            IN IF event.node_id = node_id
               THEN [res |-> "Panic", value |-> {}]
               ELSE [res |-> "Ok", value |-> {event}]

\* highest_following answering from the cache of all the nodes' events.
highest_following_any_node(g) == {g.highest.events[1]}

highest_following(g) ==
    IF g.highest_following.events = <<>> THEN {}
    ELSE {g.highest_following.events[1]}

\* Lines 269-297: the (vertex, following) pairs the traversal completes from a
\* vertex reached with `following`.
RECURSIVE Completed(_, _, _, _)
Completed(g, node_id, current, following) ==
    IF out_neighbors(g, current) = {} THEN {<<current, following>>}
    ELSE UNION
           {IF out_neighbors(g, n) = {} /\ n.node_id = node_id
            THEN {<<current, following>>}
            ELSE IF out_neighbors(g, n) = {} /\ current.node_id = node_id
            THEN {<<n, following + 1>>}
            ELSE Completed(g, node_id, n, following + 1)
               : n \in out_neighbors(g, current)}

\* compute_highest_following with the event itself returned when nothing
\* follows it.
compute_highest_following_or_self(g, node_id, event) ==
    IF ~contains(g, event) THEN {}
    ELSE IF out_neighbors(g, event) = {} THEN {event}
    ELSE LET completed ==
                 UNION {Completed(g, node_id, n, 1) : n \in out_neighbors(g, event)}
         IN {c[1] : c \in {c \in completed : \A d \in completed : d[2] <= c[2]}}

\* compute_highest_following: the events the call may return (one of the
\* completed vertices of the greatest following); none when it returns None.
compute_highest_following(g, node_id, event) ==
    IF ~contains(g, event) THEN {}
    ELSE IF out_neighbors(g, event) = {} THEN {}
    ELSE LET completed ==
                 UNION {Completed(g, node_id, n, 1) : n \in out_neighbors(g, event)}
         IN {c[1] : c \in {c \in completed : \A d \in completed : d[2] <= c[2]}}

\* is_direct_follower asking for the edge in the other direction.
is_direct_follower_reversed(g, event1, event2) ==
    /\ contains(g, event1)
    /\ contains(g, event2)
    /\ <<event1, event2>> \in g.graph.edges

is_direct_follower(g, event1, event2) ==
    /\ contains(g, event1)
    /\ contains(g, event2)
    /\ <<event2, event1>> \in g.graph.edges

\* One of the three tests is set up: CausalGraph::new on its root.
GraphInit ==
    /\ \E test \in DOMAIN GraphTests :
          cg = [test |-> test]
                  @@ CausalGraph_new(GraphTests[test].node_id, GraphTests[test].root)
    /\ LET s == HardChain_new(EmptyDb)
       IN /\ height = s.height
          /\ canonical_tip = s.canonical_tip
          /\ canonical_tips_cache = s.canonical_tips_cache
          /\ pending_tips_cache = s.pending_tips_cache
          /\ pending_heads_parents = s.pending_heads_parents
          /\ orphan_pool = s.orphan_pool
          /\ db = s.db
          /\ easy_hard_tip = s.easy_hard_tip
    /\ arg = NoBlock
    /\ result = "None"
    /\ chain_ref = NoRef
    /\ address = NoAddress
    /\ validator = NoValidator

\* One call of push with an event of the test that was not pushed yet (the
\* tests push a shuffle of their events).
Push(event) ==
    /\ cg.used
    /\ cg.status = "Ok"
    /\ event \in GraphTests[cg.test].events
    /\ ~contains(cg, event)
    /\ cg' \in push(cg, event)
    /\ UNCHANGED <<engine, arg, result, chain_ref, address, validator>>

GraphNext ==
    \E test \in DOMAIN GraphTests : \E event \in GraphTests[test].events : Push(event)

SpecGraph == GraphInit /\ [][GraphNext]_vars

\* push taken one iteration of its loop at a time.  cg.loop holds the local
\* deque `ends` of the call that is running.
NoLoop == [running |-> FALSE, ends |-> <<>>]

PushInit ==
    /\ \E test \in DOMAIN GraphTests :
          cg = [test |-> test, loop |-> NoLoop]
                  @@ CausalGraph_new(GraphTests[test].node_id, GraphTests[test].root)
    /\ LET s == HardChain_new(EmptyDb)
       IN /\ height = s.height
          /\ canonical_tip = s.canonical_tip
          /\ canonical_tips_cache = s.canonical_tips_cache
          /\ pending_tips_cache = s.pending_tips_cache
          /\ pending_heads_parents = s.pending_heads_parents
          /\ orphan_pool = s.orphan_pool
          /\ db = s.db
          /\ easy_hard_tip = s.easy_hard_tip
    /\ arg = NoBlock
    /\ result = "None"
    /\ chain_ref = NoRef
    /\ address = NoAddress
    /\ validator = NoValidator

\* Lines 97-110: the event becomes a pending vertex and the deque is filled
\* from the ends map.
PushEnter(event) ==
    /\ cg.used
    /\ ~cg.loop.running
    /\ cg.status = "Ok"
    /\ event \in GraphTests[cg.test].events
    /\ ~contains(cg, event)
    /\ \E order \in Orders(DOMAIN cg.ends) :
          cg' = [cg EXCEPT
                   !.graph.vertices = @ \cup {event},
                   !.lookup_table = Put(@, event.hash, event),
                   !.pending = @ \cup {event},
                   !.loop = [running |-> TRUE,
                             ends |-> [i \in 1..Len(order) |->
                                         [v |-> order[i],
                                          following |-> cg.ends[order[i]]]]]]
    /\ UNCHANGED <<engine, arg, result, chain_ref, address, validator>>

\* Lines 121-183: one iteration of the loop.
PushIterate ==
    /\ cg.used
    /\ cg.loop.running
    /\ cg.pending # {}
    /\ cg.loop.ends # <<>>
    /\ \E x \in LoopBody(cg, cg.loop.ends) : cg' = [x.g EXCEPT !.loop.ends = x.ends]
    /\ UNCHANGED <<engine, arg, result, chain_ref, address, validator>>

\* Lines 117-119 and 184-186: the two returns of the loop.
PushReturn ==
    /\ cg.used
    /\ cg.loop.running
    /\ cg.pending = {} \/ cg.loop.ends = <<>>
    /\ cg' = [cg EXCEPT !.loop = NoLoop]
    /\ UNCHANGED <<engine, arg, result, chain_ref, address, validator>>

PushNext ==
    \/ \E test \in DOMAIN GraphTests : \E event \in GraphTests[test].events :
          PushEnter(event)
    \/ PushIterate
    \/ PushReturn

\* A call of push that has started keeps running.
SpecPush ==
    PushInit /\ [][PushNext]_vars /\ WF_vars(PushIterate) /\ WF_vars(PushReturn)

(***************************************************************************)
(* ShareholdersAddress                                                     *)
(* (src/src/account/src/addresses/shareholders_address.rs)                 *)
(*                                                                         *)
(* An address is the sequence of its bytes; a panic is the result "Panic". *)
(***************************************************************************)
ADDR_TYPE == 3

\* struct ShareholdersAddress([u8; 32])
ADDR_LEN == 32

\* The length from_bytes asks of its input.
ENCODED_LEN == 33

\* Byte values: the ends of gen_range(1, 255), the type byte, and the two
\* values of u8 outside that range.
ByteSamples == {0, 1, 3, 254, 255}

\* A byte sequence of a given length made of a first byte, a filling byte and
\* a last byte.
Bytes(len, first, fill, last) ==
    [i \in 1..len |-> IF i = 1 THEN first ELSE IF i = len THEN last ELSE fill]

\* Arbitrary for ShareholdersAddress: 32 bytes, each in 1..254.
Arbitrary ==
    {Bytes(ADDR_LEN, first, fill, last) :
        first \in ByteSamples \cap 1..254,
        fill \in ByteSamples \cap 1..254,
        last \in ByteSamples \cap 1..254}

\* Inputs of from_bytes that did not come from to_bytes.
WireInputs ==
    {Bytes(len, first, fill, fill) :
        len \in {0, 1, 2, ADDR_LEN - 1, ADDR_LEN, ENCODED_LEN, ENCODED_LEN + 1},
        first \in ByteSamples, fill \in ByteSamples}

\* <[T]>::copy_from_slice into an array of dest_len elements: it panics when
\* the lengths differ.
copy_from_slice(dest_len, src) ==
    IF Len(src) # dest_len THEN [res |-> "Panic", value |-> {}]
    ELSE [res |-> "Ok", value |-> {src}]

from_bytes(bin) ==
    IF Len(bin) = 0 THEN [res |-> "Panic", value |-> {}]
    ELSE LET addr_type == bin[1]
         IN IF Len(bin) = ENCODED_LEN /\ addr_type = ADDR_TYPE
            THEN copy_from_slice(ADDR_LEN, bin)
            ELSE IF addr_type # ADDR_TYPE
            THEN [res |-> "Bad address type!", value |-> {}]
            ELSE [res |-> "Bad slice length!", value |-> {}]

to_bytes(a) == <<ADDR_TYPE>> \o a

\* No address yet, no bytes, no call of from_bytes.
AddressInit ==
    /\ address = [used |-> TRUE, tx |-> {}, bin |-> {},
                  out |-> [res |-> "None", value |-> {}]]
    /\ LET s == HardChain_new(EmptyDb)
       IN /\ height = s.height
          /\ canonical_tip = s.canonical_tip
          /\ canonical_tips_cache = s.canonical_tips_cache
          /\ pending_tips_cache = s.pending_tips_cache
          /\ pending_heads_parents = s.pending_heads_parents
          /\ orphan_pool = s.orphan_pool
          /\ db = s.db
          /\ easy_hard_tip = s.easy_hard_tip
    /\ arg = NoBlock
    /\ result = "None"
    /\ chain_ref = NoRef
    /\ cg = NoGraph
    /\ validator = NoValidator

\* ShareholdersAddress::to_bytes(&tx) on a generated address.
ToBytes(tx) ==
    /\ address.used
    /\ address.bin = {}
    /\ address' = [address EXCEPT !.tx = {tx}, !.bin = {to_bytes(tx)}]
    /\ UNCHANGED <<engine, arg, result, chain_ref, cg, validator>>

\* Bytes arriving from elsewhere.
Receive(bin) ==
    /\ address.used
    /\ address.bin = {}
    /\ address' = [address EXCEPT !.bin = {bin}]
    /\ UNCHANGED <<engine, arg, result, chain_ref, cg, validator>>

\* ShareholdersAddress::from_bytes on the bytes at hand.
FromBytes ==
    /\ address.used
    /\ address.out.res = "None"
    /\ \E bin \in address.bin : address' = [address EXCEPT !.out = from_bytes(bin)]
    /\ UNCHANGED <<engine, arg, result, chain_ref, cg, validator>>

AddressNext ==
    \/ \E tx \in Arbitrary : ToBytes(tx)
    \/ \E bin \in WireInputs : Receive(bin)
    \/ FromBytes

SpecAddress == AddressInit /\ [][AddressNext]_vars

(***************************************************************************)
(* Validator (src/src/purple_vm/src/code/validator.rs)                     *)
(*                                                                         *)
(* A stack is a sequence with its top at the end; a transition is a kind   *)
(* with a byte; a panic is the status "Panic" and ends the run.            *)
(***************************************************************************)
\* Instruction::repr: the byte of each instruction the validator names.
Instruction_repr ==
    [Nop |-> 1, Begin |-> 2, Loop |-> 3, If |-> 4, Else |-> 5, End |-> 11,
     Break |-> 12, BreakIf |-> 13, PushOperand |-> 16, PushLocal |-> 17,
     i32Const |-> 65, i64Const |-> 66, f32Const |-> 67, f64Const |-> 68]

\* Instruction::from_repr: Some(instruction) as {name}, None as {}.
Instruction_from_repr(byte) ==
    {n \in DOMAIN Instruction_repr : Instruction_repr[n] = byte}

Transition(kind, byte) == [kind |-> kind, byte |-> byte]

\* Instruction::transitions: the default transitions, to every instruction
\* that needs no enclosing loop or if.
Instruction_transitions(name) ==
    {Transition("Op", Instruction_repr[n]) :
        n \in {"Nop", "Begin", "Loop", "If", "End", "PushOperand", "PushLocal"}}

ARITY_TRANSITIONS == {Transition("Byte", x) : x \in 0..8}

ARG_DECLARATIONS ==
    {Transition("Byte", Instruction_repr[n]) :
        n \in {"i32Const", "i64Const", "f32Const", "f64Const"}}

\* A transition that accepts whatever byte comes.
accepts_any_byte(t, byte) == TRUE

accepts_byte(t, byte) == t.kind = "AnyByte" \/ t.byte = byte

Validator_new ==
    [state |-> "Invalid", transitions |-> {}, validation_stack |-> <<>>,
     cf_stack |-> <<>>, status |-> "Ok"]

\* validate_push, with what push_op does with next_transitions after it.
validate_push(v, op, transition) ==
    LET len == Len(v.validation_stack)
    IN IF len = 1
       THEN IF transition.kind # "Byte" THEN [v EXCEPT !.status = "Panic"]
            ELSE [v EXCEPT !.validation_stack = Append(@, transition.byte),
                           !.state = "Invalid",
                           !.transitions = {Transition("AnyByte", 0)}]
       ELSE IF len = 2
       THEN [v EXCEPT !.validation_stack = Append(@, op),
                      !.state = "Invalid",
                      !.transitions = ARG_DECLARATIONS]
       ELSE LET arity == v.validation_stack[2]
                offset1 == arity + 2
            IN IF len >= 3 /\ len <= offset1
               THEN [v EXCEPT !.validation_stack = Append(@, op),
                              !.state = "Invalid",
                              !.transitions =
                                  IF len = offset1 THEN {Transition("AnyByte", 0)}
                                  ELSE ARG_DECLARATIONS]
               \* Lines 340-344: unimplemented!() or panic!, whatever offset3 is;
               \* the declared types on the stack are all known to VmType.
               ELSE [v EXCEPT !.status = "Panic"]

push_op(v, op) ==
    IF v.state = "IrrefutablyInvalid" THEN [v EXCEPT !.status = "Panic"]
    ELSE IF Len(v.cf_stack) = 0
    THEN IF Instruction_from_repr(op) = {"Begin"}
         THEN [v EXCEPT !.cf_stack = Append(@, "Begin"),
                        !.validation_stack = Append(@, Instruction_repr.Begin),
                        !.transitions = {Transition("Byte", 0)}]
         ELSE [v EXCEPT !.state = "IrrefutablyInvalid"]
    ELSE
      LET accepted == {t \in v.transitions : accepts_byte(t, op)}
      IN IF accepted = {} THEN [v EXCEPT !.state = "IrrefutablyInvalid"]
         ELSE
           LET transition == CHOOSE t \in accepted : TRUE
           IN IF transition.kind = "Op"
              THEN
                LET name == CHOOSE n \in Instruction_from_repr(transition.byte) : TRUE
                    cf1 == IF name \in {"Begin", "Loop", "If", "Else"}
                           THEN Append(v.cf_stack, name) ELSE v.cf_stack
                    pops == IF name # "End" THEN 0
                            ELSE IF cf1[Len(cf1)] = "Else" THEN 2 ELSE 1
                IN IF pops > Len(cf1) THEN [v EXCEPT !.status = "Panic"]
                   ELSE
                     LET cf2 == SubSeq(cf1, 1, Len(cf1) - pops)
                     IN IF Len(cf2) = 0
                        THEN [v EXCEPT !.cf_stack = cf2, !.state = "Valid"]
                        ELSE
                          [v EXCEPT
                             !.cf_stack = cf2,
                             !.validation_stack =
                                 IF name \in {"PushLocal", "PushOperand"}
                                 THEN Append(@, Instruction_repr[name]) ELSE @,
                             !.state = "Invalid",
                             !.transitions =
                                 (IF name \in {"PushLocal", "PushOperand"}
                                  THEN ARITY_TRANSITIONS
                                  ELSE Instruction_transitions(name))
                                 \cup (IF \E i \in 1..Len(cf2) : cf2[i] = "Loop"
                                       THEN {Transition("Op", Instruction_repr.Break),
                                             Transition("Op", Instruction_repr.BreakIf)}
                                       ELSE {})
                                 \cup (IF cf2[Len(cf2)] = "Else"
                                       THEN {Transition("Op", Instruction_repr.Else)}
                                       ELSE {})]
              ELSE IF v.validation_stack = <<>>
              THEN [v EXCEPT !.status = "Panic"]
              ELSE
                LET operand == Instruction_from_repr(v.validation_stack[1])
                IN IF operand = {"Begin"}
                   THEN IF Len(v.validation_stack) # 1 \/ transition.kind # "Byte"
                        THEN [v EXCEPT !.status = "Panic"]
                        ELSE IF \/ Len(v.cf_stack) = 1 /\ transition.byte = 0
                                \/ Len(v.cf_stack) # 1
                                     /\ \E t \in ARITY_TRANSITIONS : accepts_byte(t, op)
                        THEN [v EXCEPT
                                !.validation_stack = SubSeq(@, 1, Len(@) - 1),
                                !.state = "Invalid",
                                !.transitions = Instruction_transitions("Begin")]
                        \* Lines 194 and 204 set IrrefutablyInvalid, line 217 then
                        \* sets Invalid.
                        ELSE [v EXCEPT
                                !.validation_stack = SubSeq(@, 1, Len(@) - 1),
                                !.state = "Invalid"]
                   ELSE IF operand \subseteq {"PushOperand", "PushLocal"} /\ operand # {}
                   THEN validate_push(v, op, transition)
                   ELSE [v EXCEPT !.status = "Panic"]

done(v) == v.state = "IrrefutablyInvalid"

valid(v) == v.state = "Valid"

\* The bytes a caller pushes: instructions, arities and an operand byte.
CodeBytes ==
    {0, 9} \cup {Instruction_repr[n] :
                    n \in {"Nop", "Begin", "Loop", "End", "PushLocal", "i32Const"}}

\* A fresh Validator and no byte pushed yet.
ValidatorInit ==
    /\ validator = [used |-> TRUE, code |-> <<>>] @@ Validator_new
    /\ LET s == HardChain_new(EmptyDb)
       IN /\ height = s.height
          /\ canonical_tip = s.canonical_tip
          /\ canonical_tips_cache = s.canonical_tips_cache
          /\ pending_tips_cache = s.pending_tips_cache
          /\ pending_heads_parents = s.pending_heads_parents
          /\ orphan_pool = s.orphan_pool
          /\ db = s.db
          /\ easy_hard_tip = s.easy_hard_tip
    /\ arg = NoBlock
    /\ result = "None"
    /\ chain_ref = NoRef
    /\ cg = NoGraph
    /\ address = NoAddress

\* One call of push_op; validator.code is the code pushed so far.
PushOp(op) ==
    /\ validator.used
    /\ validator.status = "Ok"
    /\ Len(validator.code) < MaxOps
    /\ validator' = [push_op(validator, op) EXCEPT !.code = Append(@, op)]
    /\ UNCHANGED <<engine, arg, result, chain_ref, cg, address>>

ValidatorNext == \E op \in CodeBytes : PushOp(op)

SpecValidator == ValidatorInit /\ [][ValidatorNext]_vars

(***************************************************************************)
(* Vocabulary of the properties                                            *)
(***************************************************************************)
Max(a, b) == IF a >= b THEN a ELSE b

\* The parent hash of a block that has one.
ParentOf(block) == CHOOSE h \in block.parent_hash : TRUE

\* The admission window as the specification states it:
\* [max(1, height - MIN_HEIGHT), height + MAX_HEIGHT].
OutsideStatedWindow(h, block_height) ==
    \/ block_height < Max(1, h - MIN_HEIGHT)
    \/ block_height > h + MAX_HEIGHT

\* The errors append_block may return.
Errors == {"NoParentHash", "BadHeight", "AlreadyInChain", "PoolFull", "InvalidParent"}

\* The parent of the block is known: the canonical tip, a stored block or an orphan.
ParentKnown(block) ==
    /\ block.parent_hash # {}
    /\ ParentOf(block) \in {canonical_tip.hash} \cup Held

KnownParentHeight(block) ==
    LET p == ParentOf(block)
    IN IF p = canonical_tip.hash THEN canonical_tip.height
       ELSE IF p \in DOMAIN db.bodies THEN db.bodies[p].height
       ELSE orphan_pool[p].block.height

(***************************************************************************)
(* C1: order independence.  Appending the blocks of the stress test's tree *)
(* in any order, each once, succeeds for every block, and once all of them *)
(* are appended the height is 7 and the canonical tip is the block of      *)
(* height 7.                                                               *)
(***************************************************************************)
C1_OrderIndependence ==
    /\ result \in {"None", "Ok"}
    /\ (\A block \in StressBlocks : block.hash \in Held)
          => (height = G.height /\ canonical_tip = G)

(***************************************************************************)
(* C2: reorganisation policy.  A block that extends an orphan tip rooted   *)
(* on the canonical branch is accepted; its branch becomes canonical if    *)
(* its height exceeds the canonical height, and otherwise the canonical    *)
(* tip stays.                                                              *)
(***************************************************************************)
C2_ReorgPolicy ==
    [][(/\ arg'.parent_hash # {}
        /\ ~OutsideStatedWindow(height, arg'.height)
        /\ ParentOf(arg') # canonical_tip.hash
        /\ ParentOf(arg') \in canonical_tips_cache
        /\ arg'.height = orphan_pool[ParentOf(arg')].block.height + 1)
       => /\ result' = "Ok"
          /\ arg'.height > height => (canonical_tip' = arg' /\ height' = arg'.height)
          /\ arg'.height <= height => canonical_tip' = canonical_tip]_vars

(***************************************************************************)
(* C3: pending splice.  A block on the canonical tip that is the missing   *)
(* parent of a pending branch is accepted, it and the branch are           *)
(* persisted, the canonical tip moves to the branch (at least two above    *)
(* the old height) and pool, tip sets and registry keep no entry for them. *)
(***************************************************************************)
C3_PendingSplice ==
    [][(/\ arg'.parent_hash = {canonical_tip.hash}
        /\ arg'.height = height + 1
        /\ arg'.hash \in DOMAIN pending_heads_parents)
       => LET spliced == {arg'.hash} \cup DOMAIN pending_heads_parents[arg'.hash]
          IN /\ result' = "Ok"
             /\ spliced \subseteq DOMAIN db'.bodies
             /\ height' >= height + 2
             /\ arg'.hash \notin DOMAIN pending_heads_parents'
             /\ spliced \cap (DOMAIN orphan_pool' \cup canonical_tips_cache'
                                \cup pending_tips_cache') = {}]_vars

(***************************************************************************)
(* C4: append monotonicity.  Whenever append_block succeeds on a block     *)
(* whose parent is the canonical tip, the height afterwards is the         *)
(* previous height plus one and the canonical tip is the appended block.   *)
(***************************************************************************)
C4_AppendMonotonicity ==
    [][(result' = "Ok" /\ arg'.parent_hash = {canonical_tip.hash})
       => (height' = height + 1 /\ canonical_tip' = arg')]_vars

\* C4's case: the third canonical append in a row has succeeded.
C4_Witness ==
    /\ result = "Ok"
    /\ canonical_tip = arg
    /\ arg = C
    /\ height = C.height
    /\ {A.hash, B.hash, C.hash} \subseteq DOMAIN db.bodies

(***************************************************************************)
(* C5: errors are pure.  A call of append_block that returns an error      *)
(* leaves the canonical tip, the height, the orphan pool, both tip sets,   *)
(* the registry of pending heads, the store and the easy chain's marker    *)
(* as they were.                                                           *)
(***************************************************************************)
C5_ErrorsLeaveState ==
    [][result' \in Errors => UNCHANGED engine]_vars

\* C5's case: BadHeight returned for a child of a pending tip, the placement
\* that relabels the parent.
C5_Witness ==
    /\ result = "BadHeight"
    /\ arg.parent_hash # {}
    /\ arg.parent_hash \subseteq pending_tips_cache
    /\ ~OutsideWindow(height, arg.height)

(***************************************************************************)
(* C6: duplicate rejection.  append_block on a block whose hash is already *)
(* in the orphan pool or in the store returns AlreadyInChain and changes   *)
(* nothing.                                                                *)
(***************************************************************************)
C6_DuplicateRejected ==
    [][arg'.hash \in Held
       => (result' = "AlreadyInChain" /\ UNCHANGED engine)]_vars

(***************************************************************************)
(* C7: bounded orphan pool.  The pool never holds more than MAX_ORPHANS    *)
(* blocks, and a block that would be stored in a full pool is rejected     *)
(* with PoolFull, the pool being left as it was.                           *)
(***************************************************************************)
C7_BoundedPool ==
    [][/\ Cardinality(DOMAIN orphan_pool') <= MAX_ORPHANS
       /\ (/\ Cardinality(DOMAIN orphan_pool) = MAX_ORPHANS
           /\ arg'.parent_hash # {}
           /\ ~OutsideStatedWindow(height, arg'.height)
           /\ ParentOf(arg') \in DOMAIN db.bodies \ {canonical_tip.hash}
           /\ arg'.hash \notin Held)
          => (result' = "PoolFull" /\ orphan_pool' = orphan_pool)]_vars

(***************************************************************************)
(* C8: admission window.  append_block returns BadHeight for every block   *)
(* whose height is below max(1, height - MIN_HEIGHT) or above              *)
(* height + MAX_HEIGHT, at every canonical height; a block inside the      *)
(* window gets BadHeight only from the parent-height rule of a tip parent. *)
(* At height 100, heights 89 and 111 are outside and 90 and 110 inside.    *)
(***************************************************************************)
C8_AdmissionWindow ==
    [][/\ OutsideStatedWindow(height, arg'.height) => result' = "BadHeight"
       /\ (result' = "BadHeight" /\ ~OutsideStatedWindow(height, arg'.height))
             => /\ arg'.parent_hash # {}
                /\ ParentOf(arg') \in {canonical_tip.hash}
                       \cup canonical_tips_cache \cup pending_tips_cache
                /\ arg'.height # KnownParentHeight(arg') + 1
       /\ OutsideWindow(100, 89) /\ OutsideWindow(100, 111)
       /\ ~OutsideWindow(100, 90) /\ ~OutsideWindow(100, 110)]_vars

\* C8's case: above height MIN_HEIGHT + 1 the lower edge is above 1, and a block
\* of height 1 has been rejected for it.
C8_Witness ==
    /\ height > MIN_HEIGHT + 1
    /\ result = "BadHeight"
    /\ arg = Edge(1)

(***************************************************************************)
(* C9: order of the admission checks.  A block without a parent hash gets  *)
(* NoParentHash whatever its height is.                                    *)
(***************************************************************************)
C9_NoParentFirst ==
    [][arg'.parent_hash = {} => result' = "NoParentHash"]_vars

(***************************************************************************)
(* C10: parent-height rule.  Whenever the parent of the appended block is  *)
(* known (the canonical tip, a stored block or an orphan of any class) and *)
(* the block is not exactly one above it, append_block returns BadHeight.  *)
(***************************************************************************)
C10_ParentHeightRule ==
    [][(ParentKnown(arg') /\ arg'.height # KnownParentHeight(arg') + 1)
       => result' = "BadHeight"]_vars

(***************************************************************************)
(* C11: the store mirrors memory.  After every append_block that succeeds  *)
(* and leaves its block as the canonical tip, the value under the          *)
(* canonical-tip key is the hash of the in-memory canonical tip and the    *)
(* value under the canonical-height key is the encoded in-memory height.   *)
(* (The claim says so of the construction and of every other call too.)    *)
(***************************************************************************)
C11_StoreMirrorsMemory ==
    (result = "Ok" /\ arg = canonical_tip)
        => /\ db.tip = {canonical_tip.hash}
           /\ db.canonical_height = {encode_be_u64(height)}

RECURSIVE LinkedToGenesis(_)
LinkedToGenesis(b) ==
    \/ b = genesis
    \/ /\ b.parent_hash # {}
       /\ LET parent == query(State, ParentOf(b))
          IN /\ parent # {}
             /\ \A p \in parent : p.height = b.height - 1 /\ LinkedToGenesis(p)

C13_CanonicalLinkage == result # "Panic" => LinkedToGenesis(canonical_tip)

(***************************************************************************)
(* C14: an orphan classified PendingHead or PendingTipHead has a parent    *)
(* that is neither in the store nor in the orphan pool.                    *)
(***************************************************************************)
C14_HeadsHaveNoParent ==
    result # "Panic"
        => \A h \in DOMAIN orphan_pool :
              orphan_pool[h].orphan_type \in {"PendingHead", "PendingTipHead"}
                  => /\ query(State, ParentOf(orphan_pool[h].block)) = {}
                     /\ ParentOf(orphan_pool[h].block) \notin DOMAIN orphan_pool

(***************************************************************************)
(* C15: an orphan classified CanonicalTip, PendingTip or PendingTipHead    *)
(* has no child in the orphan pool.                                        *)
(***************************************************************************)
C15_TipsHaveNoChild ==
    result # "Panic"
        => \A h \in DOMAIN orphan_pool :
              orphan_pool[h].orphan_type \in {"CanonicalTip", "PendingTip", "PendingTipHead"}
                  => \A c \in DOMAIN orphan_pool : orphan_pool[c].block.parent_hash # {h}

(***************************************************************************)
(* C16: every hash in the two tip caches is a key of the orphan pool, and  *)
(* every branch recorded in the registry of pending heads has at least one *)
(* tip, reachable from its head through the pool, that is in the cache of  *)
(* pending tips.                                                           *)
(***************************************************************************)
\* The orphan h is the orphan c or descends from it through orphans.
RECURSIVE DescendsFrom(_, _)
DescendsFrom(h, c) ==
    \/ h = c
    \/ /\ h \in DOMAIN orphan_pool
       /\ orphan_pool[h].block.parent_hash # {}
       /\ ParentOf(orphan_pool[h].block) \in DOMAIN orphan_pool
       /\ DescendsFrom(ParentOf(orphan_pool[h].block), c)

C16_TipCachesAndRegistry ==
    result # "Panic"
        => /\ canonical_tips_cache \cup pending_tips_cache \subseteq DOMAIN orphan_pool
           /\ \A k \in DOMAIN pending_heads_parents :
                 \A c \in DOMAIN pending_heads_parents[k] :
                    \E tip \in pending_tips_cache : DescendsFrom(tip, c)

\* C16's case: a branch of two orphans whose head arrived after its child and
\* was re-keyed in the registry, next to a fork of the canonical chain.
C16_Witness ==
    /\ result = "Ok"
    /\ canonical_tips_cache # {}
    /\ \E k \in DOMAIN pending_heads_parents :
          \E c \in DOMAIN pending_heads_parents[k] :
             /\ orphan_pool[c].orphan_type = "PendingTip"
             /\ ParentOf(orphan_pool[c].block) \in DOMAIN orphan_pool
             /\ orphan_pool[ParentOf(orphan_pool[c].block)].orphan_type = "PendingHead"

(***************************************************************************)
(* C17: reorganisation correctness.  When a block extends a fork of the    *)
(* canonical chain above the canonical height, then after the call         *)
(* query_by_height(h) returns, for every h up to the new height, the block *)
(* of height h on the block's branch, and every block of the former        *)
(* canonical chain that is not on that branch is in the orphan pool.       *)
(***************************************************************************)
\* The block held under a hash, in the orphan pool or in the store.
Lookup(hash) ==
    IF hash \in DOMAIN orphan_pool THEN {orphan_pool[hash].block} ELSE query(State, hash)

\* A block and its ancestors among the blocks held.
RECURSIVE BranchOf(_)
BranchOf(b) ==
    {b} \cup (IF b.parent_hash = {} THEN {}
              ELSE UNION {BranchOf(p) : p \in Lookup(ParentOf(b))})

C17_ReorgCorrectness ==
    [][(/\ arg'.parent_hash # {}
        /\ ~OutsideStatedWindow(height, arg'.height)
        /\ ParentOf(arg') # canonical_tip.hash
        /\ ParentOf(arg') \in canonical_tips_cache
        /\ arg'.height = orphan_pool[ParentOf(arg')].block.height + 1
        /\ arg'.height > height)
       => LET new == BranchOf(arg')
              old == BranchOf(canonical_tip)
          IN /\ \A h \in 1..arg'.height :
                   query_by_height(State', h)
                       = [res |-> "Ok", block |-> {b \in new : b.height = h}]
             /\ \A b \in old \ new : b.hash \in DOMAIN orphan_pool']_vars

(***************************************************************************)
(* C19: when the stamp on the easy chain fails during a canonical append,  *)
(* the append is rolled back: the call returns an error and the canonical  *)
(* tip, the height, the store and the rest of the engine are as before.    *)
(***************************************************************************)
\* The step is a canonical append that reached the stamp, and the stamp failed:
\* the block sits on the canonical tip one above it, no pending branch waits on
\* it, and the easy chain's marker has not become its hash.
StampFailed ==
    /\ arg'.parent_hash = {canonical_tip.hash}
    /\ arg'.height = height + 1
    /\ arg'.hash \notin DOMAIN pending_heads_parents
    /\ easy_hard_tip' # {arg'.hash}

C19_StampFailureRollsBack ==
    [][StampFailed => (result' \in Errors /\ UNCHANGED engine)]_vars

(***************************************************************************)
(* C20: cross-chain stamp.  After every successful append_block that       *)
(* advances the canonical tip the marker on the easy chain is the hash of  *)
(* the canonical tip; a successful call that only places a block in the    *)
(* orphan pool, and a call that returns an error, leave the marker alone.  *)
(***************************************************************************)
C20_CrossChainStamp ==
    [][/\ (result' = "Ok" /\ canonical_tip' # canonical_tip)
            => easy_hard_tip' = {canonical_tip'.hash}
       /\ (result' = "Ok" /\ canonical_tip' = canonical_tip)
            => easy_hard_tip' = easy_hard_tip
       /\ result' \in Errors => easy_hard_tip' = easy_hard_tip]_vars

\* C20's case: the marker is the second canonical block while the last call
\* placed a block in the orphan pool.
C20_Witness ==
    /\ result = "Ok"
    /\ canonical_tip = B
    /\ easy_hard_tip = {B.hash}
    /\ arg # B
    /\ arg.hash \in DOMAIN orphan_pool

(***************************************************************************)
(* C18: atomic store update.  The store writes of one append_block take    *)
(* effect all together or not at all: whatever happens during a call, the  *)
(* store afterwards is the store before it, or it holds the block's body,  *)
(* the new canonical height and the block's height index all three.  (The  *)
(* claim names the canonical-tip key too, which no call writes.)           *)
(***************************************************************************)
C18_AtomicStoreUpdate ==
    [][\/ db' = db
       \/ /\ arg'.hash \in DOMAIN db'.bodies
          /\ db'.canonical_height # db.canonical_height
          /\ arg'.hash \in DOMAIN db'.block_height
          /\ db'.block_height[arg'.hash] \in db'.canonical_height]_vars

(***************************************************************************)
(* C21: cache coherence.  Under every interleaving of query calls by       *)
(* several threads and of append_block calls, whenever query returns       *)
(* Some(b) for a hash, b is the block the store holds under that hash at   *)
(* that moment; and every entry of the cache is the store's block under    *)
(* its hash.                                                               *)
(***************************************************************************)
\* The step is the return of a call of query.
Returns(t) == chain_ref.th[t].pc # "idle" /\ chain_ref'.th[t].pc = "idle"

C21_CacheCoherence ==
    [][/\ \A t \in Threads :
             Returns(t)
                => \A r \in chain_ref'.returned :
                      r.value # {}
                         => /\ r.hash \in DOMAIN db'.bodies
                            /\ r.value = {db'.bodies[r.hash]}
       /\ \A i \in 1..Len(chain_ref'.block_cache) :
             /\ chain_ref'.block_cache[i].hash \in DOMAIN db'.bodies
             /\ chain_ref'.block_cache[i].block
                    = db'.bodies[chain_ref'.block_cache[i].hash]]_vars

\* C21's case: a block served from the cache after a later append has changed
\* the store.
C21_Witness ==
    /\ chain_ref.used
    /\ height = 2
    /\ \E r \in chain_ref.returned :
          r.via = "cache" /\ r.value = {A} /\ r.hash = A.hash

(***************************************************************************)
(* C22: lock discipline of query.  A thread inside query never holds the   *)
(* cache's mutex while it waits for or holds the engine's lock or reads    *)
(* the store; a query that hits the cache returns without touching the     *)
(* engine's lock, and can take its steps while a writer holds that lock.   *)
(***************************************************************************)
C22_CacheMutexDiscipline ==
    [][/\ \A t \in chain_ref.mutex :
             /\ chain_ref.th[t].pc \in {"cache_locked", "fill_locked"}
             /\ t \notin chain_ref.readers
       /\ \A t \in chain_ref'.mutex :
             /\ chain_ref'.th[t].pc \in {"cache_locked", "fill_locked"}
             /\ t \notin chain_ref'.readers
       /\ \A t \in Threads :
             (Returns(t) /\ \E r \in chain_ref'.returned : r.via = "cache")
                => /\ chain_ref'.readers = chain_ref.readers
                   /\ chain_ref'.writer = chain_ref.writer
                   /\ chain_ref.th[t].pc = "cache_locked"
       /\ \A t \in Threads :
             chain_ref.th[t].pc = "cache_locked" => ENABLED QueryCacheGet(t)]_vars

\* C22's case: a query has returned from the cache while a writer holds the
\* engine's lock.
C22_Witness ==
    /\ chain_ref.used
    /\ chain_ref.writer
    /\ \E r \in chain_ref.returned : r.via = "cache" /\ r.value # {}


(***************************************************************************)
(* Vocabulary of the causal-graph properties                               *)
(***************************************************************************)
\* The root and the events of the test that is running.
GraphEvents ==
    IF ~cg.used THEN {}
    ELSE {GraphTests[cg.test].root} \cup GraphTests[cg.test].events

\* The distance of an event from the root along parent hashes through the
\* events pushed so far; -1 when an ancestor has not been pushed.
RECURSIVE Depth(_, _)
Depth(g, e) ==
    IF e.parent_hash = {} THEN 0
    ELSE IF \A h \in e.parent_hash : h \notin DOMAIN g.lookup_table THEN -1
    ELSE LET d == Depth(g, g.lookup_table[CHOOSE h \in e.parent_hash : TRUE])
         IN IF d < 0 THEN -1 ELSE d + 1

Attached(g) == {e \in g.graph.vertices : Depth(g, e) >= 0}

AllPushed == cg.used /\ cg.graph.vertices = GraphEvents

C24_PushOrderIndependence ==
    cg.used =>
        LET att == Attached(cg)
        IN /\ cg.status = "Ok"
           /\ cg.graph.edges =
                 {<<b, a>> : a \in {x \in att : x.parent_hash # {}},
                             b \in att} \cap
                 {pr \in att \X att : pr[2].parent_hash = {pr[1].hash}}
           /\ cg.pending = cg.graph.vertices \ att
           /\ DOMAIN cg.ends =
                 {e \in att : \A a \in att : a.parent_hash # {e.hash}}
           /\ \A e \in DOMAIN cg.ends : cg.ends[e] = Depth(cg, e)

\* Case of C24: every event of the branching test was pushed, one of them
\* before its parent, and nothing is pending.
C24_Witness ==
    /\ cg.used
    /\ cg.test = "mul_paths"
    /\ AllPushed
    /\ cg.pending = {}
    /\ Cardinality(DOMAIN cg.ends) = 3

\* C25: highest_following() returns an attached event of another node than the
\* graph's own whose distance from the root is the greatest among such events,
\* and None when there is none; once the byzantine test has pushed all its
\* events, highest_following() and compute_highest_following(n1, A) are D.
C25_HighestFollowing ==
    cg.used =>
        LET others_attached ==
                {e \in Attached(cg) : e.node_id # cg.node_id}
        IN /\ others_attached = {} => highest_following(cg) = {}
           /\ others_attached # {} =>
                 \E e \in others_attached :
                    /\ highest_following(cg) = {e}
                    /\ \A d \in others_attached : Depth(cg, d) <= Depth(cg, e)
           /\ (AllPushed /\ cg.test = "byzantine") =>
                 /\ highest_following(cg) = {ByzantineEvents.D}
                 /\ compute_highest_following(cg, "n1", ByzantineEvents.A)
                        = {ByzantineEvents.D}

\* Case of C25: the byzantine test has pushed all its events, three of them by
\* the graph's own node, and highest_following() is D.
C25_Witness ==
    /\ cg.used
    /\ cg.test = "byzantine"
    /\ AllPushed
    /\ highest_following(cg) = {ByzantineEvents.D}

\* C26: compute_highest_following(N, e), called on the latest event e of a node
\* N (its attached event farthest from the root), never returns an event
\* authored by N.
C26_HighestFollowingSkipsSelf ==
    cg.used =>
        \A N \in NodeIds :
            LET mine == {e \in Attached(cg) : e.node_id = N}
                latest == {e \in mine : \A d \in mine : Depth(cg, d) <= Depth(cg, e)}
            IN \A e \in latest :
                  \A r \in compute_highest_following(cg, N, e) : r.node_id # N

\* Case of C26: the call on the latest event of n1 returns an event.
C26_Witness ==
    /\ cg.used
    /\ cg.test = "direct_follower"
    /\ AllPushed
    /\ compute_highest_following(cg, "n1", DirectFollowerEvents.C)
          = {DirectFollowerEvents.D}

\* C27: every vertex has at most one in-neighbour, a pending vertex has no
\* in-edge and no out-edge, and push never aborts on "more than one parent".
C27_SingleParent ==
    cg.used =>
        /\ \A v \in cg.graph.vertices : Cardinality(in_neighbors(cg, v)) <= 1
        /\ \A p \in cg.pending :
              in_neighbors(cg, p) = {} /\ out_neighbors(cg, p) = {}
        /\ cg.status = "Ok"

\* Case of C27: an event waits for its parent, which was pushed and waits
\* too, next to attached events.
C27_Witness ==
    /\ cg.used
    /\ cg.graph.edges # {}
    /\ \E p \in cg.pending : \E q \in cg.pending : p.parent_hash = {q.hash}

\* C28: highest_exclusive(n) returns the cached highest event when n did not
\* author it and that event's parent otherwise; it never returns an event of
\* n, and returns None only when n authored the highest event and that event
\* has no parent.
C28_HighestExclusive ==
    cg.used =>
        \A n \in NodeIds :
            LET top == highest(cg)
                r == highest_exclusive(cg, n)
            IN /\ r.res = "Ok"
               /\ top.node_id # n => r.value = {top}
               /\ top.node_id = n =>
                     r.value = {cg.lookup_table[h] : h \in top.parent_hash}
               /\ \A e \in r.value : e.node_id # n
               /\ r.value = {} <=> (top.node_id = n /\ top.parent_hash = {})


\* C29: canonical_tips_cache never holds the hash of the current canonical tip
\* nor the hash of a block that is stored on the canonical branch.
C29_CanonicalTipsOffCanonical ==
    /\ canonical_tip.hash \notin canonical_tips_cache
    /\ canonical_tips_cache \cap DOMAIN db.bodies = {}


\* C30: to_bytes gives the type byte 3 followed by the 32 bytes of the address,
\* from_bytes of these bytes returns Ok of the address, and from_bytes accepts
\* an input exactly when it has 33 bytes and the first is the type byte.
C30_AddressRoundTrip ==
    (address.used /\ address.out.res # "None") =>
        \A bin \in address.bin :
            /\ \A tx \in address.tx :
                  /\ Len(bin) = 33
                  /\ bin[1] = 3
                  /\ SubSeq(bin, 2, 33) = tx
                  /\ address.out = [res |-> "Ok", value |-> {tx}]
            /\ address.out.res = "Ok" <=> (Len(bin) = 33 /\ bin[1] = 3)


\* C32: every orphan classified PendingHead or PendingTipHead is recorded in
\* the branch descriptor stored under its own parent hash: that descriptor
\* exists and holds the orphan or a block of the branch that hangs from it.
C32_RegistryCompleteness ==
    result # "Panic" =>
        \A h \in DOMAIN orphan_pool :
            orphan_pool[h].orphan_type \in {"PendingHead", "PendingTipHead"} =>
                /\ ParentOf(orphan_pool[h].block) \in DOMAIN pending_heads_parents
                /\ \E c \in DOMAIN pending_heads_parents[ParentOf(orphan_pool[h].block)] :
                      DescendsFrom(c, h)


\* C33: a block that passes admission, is not held yet, and whose parent is a
\* block of the canonical branch other than the canonical tip (the genesis
\* block included) is placed in the orphan pool as CanonicalTip and added to
\* canonical_tips_cache; it is not classified as a pending block.
C33_ForkOffCanonical ==
    [][(/\ ~OutsideWindow(height, arg'.height)
        /\ arg'.hash \notin Held
        /\ arg'.parent_hash # {}
        /\ ParentOf(arg') \in ({GenesisHash} \cup DOMAIN db.bodies) \ {canonical_tip.hash})
          => /\ result' = "Ok"
             /\ arg'.hash \in DOMAIN orphan_pool'
             /\ orphan_pool'[arg'.hash].orphan_type = "CanonicalTip"
             /\ arg'.hash \in canonical_tips_cache']_vars


\* C34: an orphan classified CanonicalTip is in canonical_tips_cache and an
\* orphan classified PendingTip or PendingTipHead is in pending_tips_cache, so
\* that no append_block reaches the "parent cannot be a tip at this point"
\* panics of the placement under a non-tip orphan.
C34_TipClassesAreCached ==
    result # "Panic" =>
        \A h \in DOMAIN orphan_pool :
            /\ orphan_pool[h].orphan_type = "CanonicalTip"
                  => h \in canonical_tips_cache
            /\ orphan_pool[h].orphan_type \in {"PendingTip", "PendingTipHead"}
                  => h \in pending_tips_cache


\* Case of C34: a block was placed under an orphan that is not a tip (Skip4
\* under the pending head B', beside B''s other child C').
C34_Witness ==
    /\ result = "Ok"
    /\ arg = Skip4
    /\ {B_prime.hash, C_prime.hash, Skip4.hash} \subseteq DOMAIN orphan_pool
    /\ orphan_pool[B_prime.hash].orphan_type = "PendingHead"
    /\ orphan_pool[Skip4.hash].orphan_type = "PendingTip"
    /\ {C_prime.hash, Skip4.hash} \subseteq pending_tips_cache


\* The changes of class the state machine of the orphan pool allows.
AllowedRelabels ==
    {<<"PendingTipHead", "PendingHead">>, <<"PendingTip", "PendingNonTip">>,
     <<"PendingTipHead", "PendingTip">>, <<"PendingHead", "PendingNonTip">>,
     <<"CanonicalTip", "CanonicalNonTip">>}

\* C35: across one append_block, an orphan that stays in the pool keeps its
\* class or makes one of the allowed changes: a non-tip does not become a tip
\* again and a non-head does not become a head again.
C35_ClassTransitions ==
    [][result' # "Panic" =>
          \A h \in DOMAIN orphan_pool \cap DOMAIN orphan_pool' :
              \/ orphan_pool'[h].orphan_type = orphan_pool[h].orphan_type
              \/ <<orphan_pool[h].orphan_type, orphan_pool'[h].orphan_type>>
                    \in AllowedRelabels]_vars


\* C36: an append_block that places its block in the orphan pool (its parent
\* is not the canonical tip and the call returns Ok) leaves canonical_tip,
\* height, every key of the store and the easy chain's marker unchanged.
C36_OrphanPlacementFrame ==
    [][(/\ result' = "Ok"
        /\ arg'.parent_hash # {}
        /\ ParentOf(arg') # canonical_tip.hash
        /\ arg'.hash \in DOMAIN orphan_pool')
          => /\ canonical_tip' = canonical_tip
             /\ height' = height
             /\ db' = db
             /\ easy_hard_tip' = easy_hard_tip]_vars

\* Case of C36: B' was placed as a fork of the canonical chain GEN -> A -> B.
C36_Witness ==
    /\ result = "Ok"
    /\ arg = B_prime
    /\ canonical_tip = B
    /\ B_prime.hash \in canonical_tips_cache
    /\ B_prime.hash \notin DOMAIN db.bodies


\* C39: across every append_block, successful or failed, the canonical height
\* does not decrease, and it changes only when canonical_tip changes.
C39_HeightMonotone ==
    [][/\ height' >= height
       /\ height' # height => canonical_tip' # canonical_tip]_vars

\* Case of C39: the height was raised to 2 by the append of B, after a call
\* that placed an orphan and left the height alone.
C39_Witness ==
    /\ result = "Ok"
    /\ arg = B
    /\ height = 2
    /\ canonical_tip = B
    /\ orphan_pool # EmptyMap


\* C37: highest() returns an event that is attached to the root and whose
\* distance from the root is the greatest over the attached events; it never
\* returns a pending event.
C37_HighestIsDeepestAttached ==
    cg.used =>
        /\ highest(cg) \in Attached(cg)
        /\ highest(cg) \notin cg.pending
        /\ \A d \in Attached(cg) : Depth(cg, d) <= Depth(cg, highest(cg))

\* Case of C37: events are attached, the deepest is one of the graph's own
\* node, and pushed events wait for an ancestor.
C37_Witness ==
    /\ cg.used
    /\ cg.pending # {}
    /\ highest(cg).parent_hash # {}
    /\ highest(cg).node_id = cg.node_id


\* C38: every push returns, and when it has returned no pending event has its
\* parent attached (an end or an interior vertex of the graph).
C38_PushTerminates ==
    /\ (cg.loop.running ~> ~cg.loop.running)
    /\ [](~cg.loop.running =>
             \A p \in cg.pending :
                 \A v \in cg.graph.vertices \ cg.pending : p.parent_hash # {v.hash})

\* Case of C38: a running push has walked back from an end to an interior
\* vertex of the graph and still has a pending event to attach.
C38_Witness ==
    /\ cg.loop.running
    /\ cg.pending # {}
    /\ \E i \in 1..Len(cg.loop.ends) :
          /\ cg.loop.ends[i].v \notin DOMAIN cg.ends
          /\ \E p \in cg.pending : p.parent_hash = {cg.loop.ends[i].v.hash}


\* C31: when the first byte pushed to a fresh Validator is not Begin, or the
\* byte after the first Begin is not the arity 0x00, the validator is done and
\* not valid, and a further push_op aborts without changing its state.
C31_RejectionIsFinal ==
    /\ [](LET code == validator.code
          IN (validator.used /\ code # <<>> /\
              (\/ code[1] # Instruction_repr.Begin
               \/ Len(code) >= 2 /\ code[2] # 0))
                => done(validator) /\ ~valid(validator))
    /\ [][(validator.used /\ done(validator))
             => /\ validator'.status = "Panic"
                /\ validator'.state = validator.state
                /\ validator'.transitions = validator.transitions
                /\ validator'.validation_stack = validator.validation_stack
                /\ validator'.cf_stack = validator.cf_stack]_vars

\* Case of C31: Begin with the arity 0x01 was rejected and the next push_op
\* aborted.
C31_Witness ==
    /\ validator.used
    /\ Len(validator.code) = 3
    /\ validator.code[1] = Instruction_repr.Begin
    /\ validator.code[2] = 1
    /\ done(validator)
    /\ validator.status = "Panic"

\* C40: valid() is true only if the control-flow stack is empty.
C40_ValidOnlyWhenClosed ==
    (validator.used /\ valid(validator)) => validator.cf_stack = <<>>

====
